---- MODULE Spec2Model ----
(***************************************************************************)
(* try-cb-golang: the seven REST handlers of package server, the token     *)
(* helpers they use, and the Couchbase repository behind them.             *)
(*                                                                         *)
(* One request is handled per step.  The data store (the users and the     *)
(* flights collection of bucket travel-users) is part of the state; the    *)
(* travel-sample queries and the full-text search are external and answer  *)
(* nondeterministically.  Any data-store operation may fail (fault).       *)
(***************************************************************************)
EXTENDS Integers, Sequences, FiniteSets, TLC

\* users, flightDocs, nextId: the data store and the ID source.
\* req: the request being answered ("none": the server is idle).
\* env: what the services do during it (the fault, the query answer).
\* w: the response written.  calls: the repository calls the handler made.
\* cas: the CAS value of each user document (0: no document).
\* procs: the requests that run side by side, each at its own position.
\* log: the bookings whose Replace went through, in that order.
VARIABLES users, flightDocs, nextId, req, env, w, calls, cas, procs, log

storeVars == <<users, flightDocs, nextId>>
reqVars   == <<req, env, w, calls>>
concVars  == <<cas, procs, log>>
vars      == <<users, flightDocs, nextId, req, env, w, calls, cas, procs, log>>

\* ------------------------------------------------------------------ bounds

\* flight IDs uuid.NewRandom can hand out before bookings stop adding flights
MaxIds == 2
\* flights in the body of one booking request
MaxFlights == 2

\* ------------------------------------------------------------------ values

UserNames == {"alice", "bob"}
Passwords == {"pw1", "pw2"}
Today     == "11/04/2026"

\* errors: kind is what errors.Is matches, msg is err.Error()
nil == [kind |-> "nil", msg |-> ""]

ErrUserExists    == [kind |-> "ErrUserExists", msg |-> "user already exists"]
ErrUserNotFound  == [kind |-> "ErrUserNotFound", msg |-> "user does not exist"]
ErrBadPassword   == [kind |-> "ErrBadPassword", msg |-> "password does not match"]
ErrBadAuthHeader == [kind |-> "ErrBadAuthHeader", msg |-> "bad authentication header format"]
ErrBadAuth       == [kind |-> "ErrBadAuth", msg |-> "invalid auth token"]
jwtSecret        == "UNSECURE_SECRET_TOKEN"

\* errors of the gocb client; the message of a returned error wraps the
\* sentinel's text with the operation's context
gocbErrDocumentNotFound == [kind |-> "ErrDocumentNotFound", msg |-> "document not found | {kv}"]
gocbErrDocumentExists   == [kind |-> "ErrDocumentExists", msg |-> "document exists | {kv}"]
gocbErrCasMismatch      == [kind |-> "ErrCasMismatch", msg |-> "cas mismatch | {kv}"]
gocbErrInvalidArgument  == [kind |-> "ErrInvalidArgument", msg |-> "invalid argument | {kv}"]
gocbErrTimeout          == [kind |-> "ErrTimeout", msg |-> "unambiguous timeout | {kv}"]
uuidErr                 == [kind |-> "uuid", msg |-> "crypto/rand: read failed"]

ErrorsIs(err, target) == err.kind = target.kind

\* ------------------------------------------------------------------ http.ResponseWriter

\* code 0: no header written yet.  body: the JSON documents written.
NewRecorder == [code |-> 0, body |-> <<>>, panicked |-> FALSE]

WriteHeader(rw, code) == IF rw.code = 0 THEN [rw EXCEPT !.code = code] ELSE rw

Write(rw, doc) ==
    LET h == WriteHeader(rw, 200)
    IN  [h EXCEPT !.body = Append(@, doc)]

Panic(rw) == [rw EXCEPT !.panicked = TRUE]

writeJsonFailure(rw, code, err) == Write(WriteHeader(rw, code), [failure |-> err.msg])

encodeRespOrFail(rw, respData) == Write(rw, respData)

\* ------------------------------------------------------------------ strings and JSON

\* A header value is a sequence of atoms: a space, a plain word, or a dotted
\* string given by its dot-separated segments (the compact form of a JWT).
Sp      == [text |-> " "]
Word(s) == [text |-> s]

FirstSpace(s) ==
    IF \E i \in 1..Len(s) : s[i] = Sp
    THEN CHOOSE i \in 1..Len(s) : s[i] = Sp /\ \A j \in 1..(i - 1) : s[j] # Sp
    ELSE 0

\* strings.SplitN(s, " ", 2)
SplitN2(s) ==
    LET i == FirstSpace(s)
    IN  IF i = 0 THEN <<s>> ELSE <<SubSeq(s, 1, i - 1), SubSeq(s, i + 1, Len(s))>>

\* JSON values carry their JSON type
JStr(s) == [t |-> "string", v |-> s]
JNum(s) == [t |-> "number", v |-> s]

\* ------------------------------------------------------------------ jwt-go

HMACMethods       == {"HS256", "HS384", "HS512"}
RegisteredMethods == HMACMethods \cup {"RS256", "none"}

\* the signature a method computes over the signing input with a key; the
\* "none" method signs with the empty string whatever the key is
Sign(alg, key, header, claims) ==
    IF alg = "none"
    THEN [alg |-> "none", key |-> "", header |-> header, claims |-> claims]
    ELSE [alg |-> alg, key |-> key, header |-> header, claims |-> claims]

\* Token.SignedString: header.claims.signature
SignedString(alg, claims, key) ==
    LET header == [alg |-> alg, typ |-> "JWT"]
    IN  [segs |-> <<header, claims, Sign(alg, key, header, claims)>>]

\* createJwtToken signing with another key than the one tokens are verified with
createJwtToken_OtherSecret(user) ==
    [token |-> SignedString("HS256", [user |-> JStr(user)], "ANOTHER_SECRET"), err |-> nil]

createJwtToken(user) ==
    [token |-> SignedString("HS256", [user |-> JStr(user)], jwtSecret), err |-> nil]

\* MapClaims.Valid: an "exp" claim in the past invalidates the token
ClaimsValid(claims) ==
    ~("exp" \in DOMAIN claims /\ claims["exp"] = JNum("past"))

\* the key function decodeAuthUserOrFail hands to jwt.Parse
KeyFunc(alg) ==
    IF alg \in HMACMethods
    THEN [key |-> jwtSecret, err |-> nil]
    ELSE [key |-> "", err |-> [kind |-> "jwt", msg |-> "Unexpected signing method"]]

jwtErr(m) == [kind |-> "jwt", msg |-> m]

\* jwt.Parse(authToken, keyFunc): authToken is what follows the first space
jwtParse(authToken) ==
    IF ~(Len(authToken) = 1 /\ "segs" \in DOMAIN authToken[1] /\ Len(authToken[1].segs) = 3)
    THEN [claims |-> <<>>, err |-> jwtErr("token contains an invalid number of segments")]
    ELSE LET header == authToken[1].segs[1]
             claims == authToken[1].segs[2]
             sig    == authToken[1].segs[3]
             k      == KeyFunc(header.alg)
         IN  IF header.alg \notin RegisteredMethods
             THEN [claims |-> claims, err |-> jwtErr("signing method (alg) is unavailable.")]
             ELSE IF k.err # nil
             THEN [claims |-> claims, err |-> k.err]
             ELSE IF ~ClaimsValid(claims)
             THEN [claims |-> claims, err |-> jwtErr("Token is expired")]
             ELSE IF sig # Sign(header.alg, k.key, header, claims)
             THEN [claims |-> claims, err |-> jwtErr("signature is invalid")]
             ELSE [claims |-> claims, err |-> nil]

\* ------------------------------------------------------------------ server helpers

\* decodeAuthUserOrFail turning to the Authentication header also when the
\* Authorization header's token does not parse
decodeAuthUserOrFail_FallbackOnInvalid(rw, r) ==
    LET p1    == SplitN2(r.authorization)
        p2    == SplitN2(r.authentication)
        other == p1[1] # <<Word("Bearer")>> \/ (Len(p1) = 2 /\ jwtParse(p1[2]).err # nil)
        parts == IF other THEN p2 ELSE p1
        fail(x) == [ok |-> FALSE, w |-> x, name |-> ""]
    IN  IF other /\ p2[1] # <<Word("Bearer")>>
        THEN fail(writeJsonFailure(rw, 400, ErrBadAuthHeader))
        ELSE IF Len(parts) < 2
        THEN fail(Panic(rw))
        ELSE LET token == jwtParse(parts[2])
             IN  IF token.err # nil
                 THEN fail(writeJsonFailure(rw, 400, ErrBadAuthHeader))
                 ELSE IF ~("user" \in DOMAIN token.claims /\ token.claims["user"].t = "string")
                 THEN fail(Panic(rw))
                 ELSE IF token.claims["user"].v = ""
                 THEN fail(writeJsonFailure(rw, 400, ErrBadAuth))
                 ELSE [ok |-> TRUE, w |-> rw, name |-> token.claims["user"].v]

\* decodeAuthUserOrFail: ok and the authed user's name, or the failure written
\* to rw.  Indexing authHeaderParts[1] of a one-element slice and asserting a
\* missing or non-string "user" claim to string panic.
decodeAuthUserOrFail(rw, r) ==
    LET p1    == SplitN2(r.authorization)
        p2    == SplitN2(r.authentication)
        parts == IF p1[1] # <<Word("Bearer")>> THEN p2 ELSE p1
        fail(x) == [ok |-> FALSE, w |-> x, name |-> ""]
    IN  IF p1[1] # <<Word("Bearer")>> /\ p2[1] # <<Word("Bearer")>>
        THEN fail(writeJsonFailure(rw, 400, ErrBadAuthHeader))
        ELSE IF Len(parts) < 2
        THEN fail(Panic(rw))
        ELSE LET token == jwtParse(parts[2])
             IN  IF token.err # nil
                 THEN fail(writeJsonFailure(rw, 400, ErrBadAuthHeader))
                 ELSE IF ~("user" \in DOMAIN token.claims /\ token.claims["user"].t = "string")
                 THEN fail(Panic(rw))
                 ELSE IF token.claims["user"].v = ""
                 THEN fail(writeJsonFailure(rw, 400, ErrBadAuth))
                 ELSE [ok |-> TRUE, w |-> rw, name |-> token.claims["user"].v]

\* json.NewDecoder(req.Body).Decode(data) into a struct whose fields are
\* `fields`: an absent key leaves the zero value, a value of another JSON
\* type is an UnmarshalTypeError.  body.syntax says whether the text parses.
JsonDecode(body, fields) ==
    IF body.syntax = "empty" THEN [err |-> [kind |-> "io", msg |-> "EOF"], data |-> <<>>]
    ELSE IF body.syntax = "malformed"
    THEN [err |-> [kind |-> "json", msg |-> "invalid character '}' looking for beginning of value"],
          data |-> <<>>]
    ELSE IF \E f \in DOMAIN fields : f \in DOMAIN body.obj /\ body.obj[f].t # fields[f].t
    THEN [err |-> [kind |-> "json", msg |-> "json: cannot unmarshal value into Go struct field"],
          data |-> <<>>]
    ELSE [err |-> nil,
          data |-> [f \in DOMAIN fields |->
                      IF f \in DOMAIN body.obj THEN body.obj[f].v ELSE fields[f].v]]

decodeReqOrFail(rw, body, fields) ==
    LET d == JsonDecode(body, fields)
    IN  IF d.err # nil
        THEN [ok |-> FALSE, w |-> writeJsonFailure(rw, 500, d.err), data |-> d.data]
        ELSE [ok |-> TRUE, w |-> rw, data |-> d.data]

\* ------------------------------------------------------------------ CBRepository

\* The store: st.users maps a key of collection users to its document,
\* st.flightDocs is the set of documents of collection flights, st.nextId is
\* the next ID uuid.NewRandom returns (IDs are fresh, never repeated).
\* fault = k > 0 makes the k-th data-store or uuid operation of a call fail;
\* fault = 0 lets all of them through.  A key is 1 to 250 bytes long: the
\* store refuses the empty key.
NoDoc == [exists |-> FALSE, password |-> "", flights |-> <<>>]

Store(u, f, n) == [users |-> u, flightDocs |-> f, nextId |-> n]

Ret(err, value, st) == [err |-> err, value |-> value, st |-> st]

\* the outcome of reading the document under `key` in collection users
UserRead(st, key, failed) ==
    IF failed THEN gocbErrTimeout
    ELSE IF key = "" THEN gocbErrInvalidArgument
    ELSE IF key \notin DOMAIN st.users \/ ~st.users[key].exists THEN gocbErrDocumentNotFound
    ELSE nil

\* the N1QL statements, named by their WHERE clause
queryAirportByFaa  == "SELECT airportname WHERE faa"
queryAirportByIcao == "SELECT airportname WHERE icao"
queryAirportByName == "SELECT airportname WHERE POSITION LOWER airportname"
queryFaa           == "SELECT faa AS fromFaa UNION SELECT faa AS toFaa"
queryFlights       == "SELECT flights WHERE sourceairport destinationairport day"

\* a search key is a sequence of one-letter strings
ToUpperCh(c) ==
    CASE c = "s" -> "S" [] c = "f" -> "F" [] c = "o" -> "O" [] c = "k" -> "K"
      [] c = "a" -> "A" [] c = "n" -> "N" [] OTHER -> c
ToLowerCh(c) ==
    CASE c = "S" -> "s" [] c = "F" -> "f" [] c = "O" -> "o" [] c = "K" -> "k"
      [] c = "A" -> "a" [] c = "N" -> "n" [] OTHER -> c
ToUpper(str) == [i \in 1..Len(str) |-> ToUpperCh(str[i])]
ToLower(str) == [i \in 1..Len(str) |-> ToLowerCh(str[i])]

emptyResp == [data |-> <<>>, context |-> <<>>]

\* ext is the answer of the query service: its error or its rows
GetAirports(st, searchKey, ext) ==
    LET sameCase == ToUpper(searchKey) = searchKey \/ ToLower(searchKey) = searchKey
        queryStr == IF sameCase /\ Len(searchKey) = 3 THEN queryAirportByFaa
                    ELSE IF sameCase /\ Len(searchKey) = 4 THEN queryAirportByIcao
                    ELSE queryAirportByName
    IN  IF ext.err # nil THEN Ret(ext.err, emptyResp, st)
        ELSE Ret(nil, [data |-> ext.rows, context |-> <<queryStr>>], st)

GetFlightPaths(st, from, to, dayOfWeek, ext) ==
    IF ext.err # nil THEN Ret(ext.err, emptyResp, st)
    ELSE Ret(nil, [data |-> ext.rows, context |-> <<queryFaa, queryFlights>>], st)

GetHotels(st, description, location, ext) ==
    IF ext.err # nil THEN Ret(ext.err, emptyResp, st)
    ELSE Ret(nil, [data |-> ext.rows, context |-> <<>>], st)

GetUserPassword(st, username, fault) ==
    LET e == UserRead(st, username, fault = 1)
    IN  IF e # nil THEN Ret(e, "", st) ELSE Ret(nil, st.users[username].password, st)

FlightDoc(st, id) == CHOOSE d \in st.flightDocs : d.id = id

GetUserFlights(st, username, fault) ==
    LET e   == UserRead(st, username, fault = 1)
        ids == st.users[username].flights
        bad(k) == fault = 1 + k \/ ~\E d \in st.flightDocs : d.id = ids[k]
    IN  IF e # nil THEN Ret(e, emptyResp, st)
        ELSE IF \E k \in 1..Len(ids) : bad(k)
        THEN LET k == CHOOSE i \in 1..Len(ids) : bad(i) /\ \A j \in 1..(i - 1) : ~bad(j)
             IN  Ret(IF fault = 1 + k THEN gocbErrTimeout ELSE gocbErrDocumentNotFound,
                     emptyResp, st)
        ELSE Ret(nil, [data |-> [k \in 1..Len(ids) |-> FlightDoc(st, ids[k]).flight],
                       context |-> <<>>], st)

\* CreateUser leaving the password out of the document
CreateUser_NoPassword(st, username, password, fault) ==
    IF fault = 1 THEN Ret(gocbErrTimeout, "", st)
    ELSE IF username = "" THEN Ret(gocbErrInvalidArgument, "", st)
    ELSE IF username \in DOMAIN st.users /\ st.users[username].exists
    THEN Ret(gocbErrDocumentExists, "", st)
    ELSE Ret(nil, "",
             [st EXCEPT !.users[username] =
                 [exists |-> TRUE, password |-> "", flights |-> <<>>]])

\* CreateUser storing the document with Upsert instead of Insert
CreateUser_Upsert(st, username, password, fault) ==
    IF fault = 1 THEN Ret(gocbErrTimeout, "", st)
    ELSE IF username = "" THEN Ret(gocbErrInvalidArgument, "", st)
    ELSE Ret(nil, "",
             [st EXCEPT !.users[username] =
                 [exists |-> TRUE, password |-> password, flights |-> <<>>]])

CreateUser(st, username, password, fault) ==
    IF fault = 1 THEN Ret(gocbErrTimeout, "", st)
    ELSE IF username = "" THEN Ret(gocbErrInvalidArgument, "", st)
    ELSE IF username \in DOMAIN st.users /\ st.users[username].exists
    THEN Ret(gocbErrDocumentExists, "", st)
    ELSE Ret(nil, "",
             [st EXCEPT !.users[username] =
                 [exists |-> TRUE, password |-> password, flights |-> <<>>]])

\* Operations of a call with n flights: 1 is the Get of the user, 2i and
\* 2i + 1 are the ID and the Upsert of flight i, 2n + 2 is the Replace.
\* A failed Replace stands for every way it fails, the CAS mismatch with a
\* writer outside this server included.
UpdateUserFlights(st, username, bookedFlights, fault) ==
    LET n    == Len(bookedFlights)
        e    == UserRead(st, username, fault = 1)
        \* flights whose Upsert was done before the call stopped
        done == IF fault = 0 \/ fault > 2 * n + 1 THEN n ELSE (fault \div 2) - 1
        \* IDs handed out before the call stopped
        got  == IF fault = 0 \/ fault > 2 * n + 1 THEN n
                ELSE IF fault % 2 = 0 THEN (fault \div 2) - 1 ELSE fault \div 2
        added   == [i \in 1..n |-> [bookedFlights[i] EXCEPT !.bookedOn = Today]]
        newIds  == [i \in 1..n |-> st.nextId + i - 1]
        written == st.flightDocs \cup {[id |-> newIds[i], flight |-> added[i]] : i \in 1..done}
        partial == [st EXCEPT !.flightDocs = written, !.nextId = st.nextId + got]
    IN  IF e # nil THEN Ret(e, [data |-> [added |-> <<>>], context |-> <<>>], st)
        ELSE IF fault > 1 /\ fault <= 2 * n + 1
        THEN Ret(IF fault % 2 = 0 THEN uuidErr ELSE gocbErrTimeout,
                 [data |-> [added |-> <<>>], context |-> <<>>], partial)
        ELSE IF fault = 2 * n + 2
        THEN Ret(gocbErrCasMismatch, [data |-> [added |-> <<>>], context |-> <<>>], partial)
        ELSE Ret(nil, [data |-> [added |-> added], context |-> <<>>],
                 [partial EXCEPT !.users[username].flights = @ \o newIds])

\* ------------------------------------------------------------------ time

\* a date string is a sequence of one-character strings
Digits == {"0", "1", "2", "3", "4", "5", "6", "7", "8", "9"}
DigitVal(c) ==
    CASE c = "0" -> 0 [] c = "1" -> 1 [] c = "2" -> 2 [] c = "3" -> 3 [] c = "4" -> 4
      [] c = "5" -> 5 [] c = "6" -> 6 [] c = "7" -> 7 [] c = "8" -> 8 [] c = "9" -> 9

IsLeap(y) == y % 4 = 0 /\ (y % 100 # 0 \/ y % 400 = 0)

DaysIn(m, y) ==
    IF m = 2 THEN (IF IsLeap(y) THEN 29 ELSE 28)
    ELSE IF m \in {4, 6, 9, 11} THEN 30 ELSE 31

\* time.Parse("01/02/2006", value): two digits, a slash, two digits, a slash,
\* four digits and nothing more; the month and the day must exist
ParseDate(value) ==
    LET D(i) == DigitVal(value[i])
        m == 10 * D(1) + D(2)
        d == 10 * D(4) + D(5)
        y == 1000 * D(7) + 100 * D(8) + 10 * D(9) + D(10)
        bad(msg) == [err |-> [kind |-> "ParseError", msg |-> msg], month |-> 0, day |-> 0, year |-> 0]
    IN  IF Len(value) < 10
           \/ \E i \in {1, 2, 4, 5, 7, 8, 9, 10} : value[i] \notin Digits
           \/ value[3] # "/" \/ value[6] # "/"
        THEN bad("parsing time: cannot parse")
        ELSE IF Len(value) > 10 THEN bad("parsing time: extra text")
        ELSE IF m < 1 \/ m > 12 THEN bad("parsing time: month out of range")
        ELSE IF d < 1 \/ d > DaysIn(m, y) THEN bad("parsing time: day out of range")
        ELSE [err |-> nil, month |-> m, day |-> d, year |-> y]

RECURSIVE DaysBeforeMonth(_, _)
DaysBeforeMonth(m, y) == IF m = 1 THEN 0 ELSE DaysBeforeMonth(m - 1, y) + DaysIn(m - 1, y)

\* Weekday numbering the days from Monday = 0, as ISO calendars do
Weekday_MondayZero(t) ==
    LET p    == t.year - 1
        days == 365 * p + (p \div 4) - (p \div 100) + (p \div 400)
                + DaysBeforeMonth(t.month, t.year) + (t.day - 1)
    IN  days % 7

\* Time.Weekday: 0 is Sunday; 1 January of year 1 was a Monday
Weekday(t) ==
    LET p    == t.year - 1
        days == 365 * p + (p \div 4) - (p \div 100) + (p \div 400)
                + DaysBeforeMonth(t.month, t.year) + (t.day - 1)
    IN  (days + 1) % 7

\* ------------------------------------------------------------------ handlers

\* A handler's outcome: the response writer, the repository calls it made,
\* and the store it leaves.
Call(method, args, ret) == [method |-> method, args |-> args, err |-> ret.err, value |-> ret.value]

Out(rw, cs, st) == [w |-> rw, calls |-> cs, st |-> st]

\* Respond hiding the error's message behind a fixed one
Respond_FixedMessage(rw, call, ret) ==
    IF ret.err # nil
    THEN Out(writeJsonFailure(rw, 500, [kind |-> "internal", msg |-> "internal error"]),
             <<call>>, ret.st)
    ELSE Out(encodeRespOrFail(rw, ret.value), <<call>>, ret.st)

\* the ending every handler shares: 500 with the error's message, or the
\* repository's result as the response
Respond(rw, call, ret) ==
    IF ret.err # nil
    THEN Out(writeJsonFailure(rw, 500, ret.err), <<call>>, ret.st)
    ELSE Out(encodeRespOrFail(rw, ret.value), <<call>>, ret.st)

AirportSearch(r, st, e) ==
    LET ret == GetAirports(st, r.search, e.ext)
    IN  Respond(NewRecorder, Call("GetAirports", <<r.search>>, ret), ret)

FlightSearch(r, st, e) ==
    LET leaveDate == ParseDate(r.leave)
    IN  IF leaveDate.err # nil
        THEN Out(writeJsonFailure(NewRecorder, 500, leaveDate.err), <<>>, st)
        ELSE LET dayOfWeek == Weekday(leaveDate)
                 ret == GetFlightPaths(st, r.from, r.to, dayOfWeek, e.ext)
             IN  Respond(NewRecorder, Call("GetFlightPaths", <<r.from, r.to, dayOfWeek>>, ret), ret)

HotelSearch(r, st, e) ==
    LET ret == GetHotels(st, r.description, r.location, e.ext)
    IN  Respond(NewRecorder, Call("GetHotels", <<r.description, r.location>>, ret), ret)

jsonUserLoginReq == [user |-> JStr(""), password |-> JStr("")]

TokenResp(token) == [data |-> [token |-> token], context |-> <<>>]

\* UserLogin without line 119's comparison of the passwords
UserLogin_NoPasswordCheck(r, st, e) ==
    LET dec == decodeReqOrFail(NewRecorder, r.body, jsonUserLoginReq)
    IN  IF ~dec.ok THEN Out(dec.w, <<>>, st)
        ELSE LET ret  == GetUserPassword(st, dec.data.user, e.fault)
                 call == Call("GetUserPassword", <<dec.data.user>>, ret)
                 tok  == createJwtToken(dec.data.user)
             IN  IF ErrorsIs(ret.err, gocbErrDocumentNotFound)
                 THEN Out(writeJsonFailure(dec.w, 401, ErrUserNotFound), <<call>>, ret.st)
                 ELSE IF ret.err # nil
                 THEN Out(writeJsonFailure(dec.w, 500, ret.err), <<call>>, ret.st)
                 ELSE Out(encodeRespOrFail(dec.w, TokenResp(tok.token)), <<call>>, ret.st)

\* UserLogin comparing the passwords before it looks at the error
UserLogin_PasswordFirst(r, st, e) ==
    LET dec == decodeReqOrFail(NewRecorder, r.body, jsonUserLoginReq)
    IN  IF ~dec.ok THEN Out(dec.w, <<>>, st)
        ELSE LET ret  == GetUserPassword(st, dec.data.user, e.fault)
                 call == Call("GetUserPassword", <<dec.data.user>>, ret)
                 tok  == createJwtToken(dec.data.user)
             IN  IF ret.value # dec.data.password
                 THEN Out(writeJsonFailure(dec.w, 401, ErrBadPassword), <<call>>, ret.st)
                 ELSE IF ErrorsIs(ret.err, gocbErrDocumentNotFound)
                 THEN Out(writeJsonFailure(dec.w, 401, ErrUserNotFound), <<call>>, ret.st)
                 ELSE IF ret.err # nil
                 THEN Out(writeJsonFailure(dec.w, 500, ret.err), <<call>>, ret.st)
                 ELSE Out(encodeRespOrFail(dec.w, TokenResp(tok.token)), <<call>>, ret.st)

UserLogin(r, st, e) ==
    LET dec == decodeReqOrFail(NewRecorder, r.body, jsonUserLoginReq)
    IN  IF ~dec.ok THEN Out(dec.w, <<>>, st)
        ELSE LET ret  == GetUserPassword(st, dec.data.user, e.fault)
                 call == Call("GetUserPassword", <<dec.data.user>>, ret)
                 tok  == createJwtToken(dec.data.user)
             IN  IF ErrorsIs(ret.err, gocbErrDocumentNotFound)
                 THEN Out(writeJsonFailure(dec.w, 401, ErrUserNotFound), <<call>>, ret.st)
                 ELSE IF ret.err # nil
                 THEN Out(writeJsonFailure(dec.w, 500, ret.err), <<call>>, ret.st)
                 ELSE IF ret.value # dec.data.password
                 THEN Out(writeJsonFailure(dec.w, 401, ErrBadPassword), <<call>>, ret.st)
                 ELSE IF tok.err # nil
                 THEN Out(writeJsonFailure(dec.w, 500, tok.err), <<call>>, ret.st)
                 ELSE Out(encodeRespOrFail(dec.w, TokenResp(tok.token)), <<call>>, ret.st)

\* UserSignup taking "document exists" for a success
UserSignup_ExistsIsOk(r, st, e) ==
    LET dec == decodeReqOrFail(NewRecorder, r.body, jsonUserLoginReq)
    IN  IF ~dec.ok THEN Out(dec.w, <<>>, st)
        ELSE LET ret  == CreateUser(st, dec.data.user, dec.data.password, e.fault)
                 call == Call("CreateUser", <<dec.data.user, dec.data.password>>, ret)
                 tok  == createJwtToken(dec.data.user)
             IN  IF ret.err # nil /\ ~ErrorsIs(ret.err, gocbErrDocumentExists)
                 THEN Out(writeJsonFailure(dec.w, 500, ret.err), <<call>>, ret.st)
                 ELSE Out(encodeRespOrFail(dec.w, TokenResp(tok.token)), <<call>>, ret.st)

UserSignup(r, st, e) ==
    LET dec == decodeReqOrFail(NewRecorder, r.body, jsonUserLoginReq)
    IN  IF ~dec.ok THEN Out(dec.w, <<>>, st)
        ELSE LET ret  == CreateUser(st, dec.data.user, dec.data.password, e.fault)
                 call == Call("CreateUser", <<dec.data.user, dec.data.password>>, ret)
                 tok  == createJwtToken(dec.data.user)
             IN  IF ErrorsIs(ret.err, gocbErrDocumentExists)
                 THEN Out(writeJsonFailure(dec.w, 409, ErrUserExists), <<call>>, ret.st)
                 ELSE IF ret.err # nil
                 THEN Out(writeJsonFailure(dec.w, 500, ret.err), <<call>>, ret.st)
                 ELSE IF tok.err # nil
                 THEN Out(writeJsonFailure(dec.w, 500, tok.err), <<call>>, ret.st)
                 ELSE Out(encodeRespOrFail(dec.w, TokenResp(tok.token)), <<call>>, ret.st)

\* UserFlights taking the user from the path instead of the token
UserFlights_PathUser(r, st, e) ==
    LET auth == decodeAuthUserOrFail(NewRecorder, r)
    IN  IF ~auth.ok THEN Out(auth.w, <<>>, st)
        ELSE LET ret == GetUserFlights(st, r.username, e.fault)
             IN  Respond(auth.w, Call("GetUserFlights", <<r.username>>, ret), ret)

UserFlights(r, st, e) ==
    LET auth == decodeAuthUserOrFail(NewRecorder, r)
    IN  IF ~auth.ok THEN Out(auth.w, <<>>, st)
        ELSE LET ret == GetUserFlights(st, auth.name, e.fault)
             IN  Respond(auth.w, Call("GetUserFlights", <<auth.name>>, ret), ret)

jsonUserBookFlightReq == [flights |-> [t |-> "array", v |-> <<>>]]

\* UserBookFlight answering 401 when the user's document is not found
UserBookFlight_NotFound401(r, st, e) ==
    LET auth == decodeAuthUserOrFail(NewRecorder, r)
        dec  == decodeReqOrFail(auth.w, r.body, jsonUserBookFlightReq)
    IN  IF ~auth.ok THEN Out(auth.w, <<>>, st)
        ELSE IF ~dec.ok THEN Out(dec.w, <<>>, st)
        ELSE LET ret  == UpdateUserFlights(st, auth.name, dec.data.flights, e.fault)
                 call == Call("UpdateUserFlights", <<auth.name, dec.data.flights>>, ret)
             IN  IF ErrorsIs(ret.err, gocbErrDocumentNotFound)
                 THEN Out(writeJsonFailure(dec.w, 401, ErrUserNotFound), <<call>>, ret.st)
                 ELSE Respond(dec.w, call, ret)

UserBookFlight(r, st, e) ==
    LET auth == decodeAuthUserOrFail(NewRecorder, r)
        dec  == decodeReqOrFail(auth.w, r.body, jsonUserBookFlightReq)
    IN  IF ~auth.ok THEN Out(auth.w, <<>>, st)
        ELSE IF ~dec.ok THEN Out(dec.w, <<>>, st)
        ELSE LET ret == UpdateUserFlights(st, auth.name, dec.data.flights, e.fault)
             IN  Respond(dec.w, Call("UpdateUserFlights", <<auth.name, dec.data.flights>>, ret), ret)

\* ------------------------------------------------------------------ requests

NoBody == [syntax |-> "empty", obj |-> <<>>]
JsonBody(obj) == [syntax |-> "ok", obj |-> obj]
Malformed == [syntax |-> "malformed", obj |-> <<>>]

\* A URL path: its segments as sent (a segment is a sequence of pieces, "%20"
\* an escaped space) and whether it ends in a slash.
Path(segs, slash) == [segs |-> segs, slash |-> slash]
NoPath == Path(<<>>, FALSE)

\* a request as its handler sees it: the path, the mux variables, the form values, the
\* two headers decodeAuthUserOrFail reads, and the body
BaseReq(h) ==
    [handler |-> h, path |-> NoPath, authorization |-> <<>>, authentication |-> <<>>,
     username |-> "", body |-> NoBody, search |-> <<>>, from |-> "", to |-> "",
     leave |-> <<>>, description |-> <<>>, location |-> <<>>]

Bearer(tokenString) == <<Word("Bearer"), Sp, tokenString>>

UserClaim(u) == [user |-> JStr(u)]

\* the tokens a client may present: issued ones and forged ones
Tokens ==
    {createJwtToken(u).token : u \in UserNames \cup {""}}
    \cup {SignedString("HS384", UserClaim("alice"), jwtSecret),
          SignedString("HS256", UserClaim("alice"), "guessed"),
          SignedString("none", UserClaim("alice"), ""),
          SignedString("RS256", UserClaim("alice"), jwtSecret),
          SignedString("XX999", UserClaim("alice"), jwtSecret),
          [segs |-> <<[alg |-> "HS256", typ |-> "JWT"], UserClaim("alice"),
                      Sign("HS256", jwtSecret, [alg |-> "HS256", typ |-> "JWT"], UserClaim("bob"))>>],
          [segs |-> <<[alg |-> "HS256", typ |-> "JWT"], UserClaim("alice")>>],
          SignedString("HS256", [user |-> JStr("alice"), exp |-> JNum("past")], jwtSecret),
          SignedString("HS256", [user |-> JStr("bob"), exp |-> JNum("future")], jwtSecret),
          SignedString("HS256", [sub |-> JStr("alice")], jwtSecret),
          SignedString("HS256", [user |-> JNum("7")], jwtSecret)}

AuthorizationHeaders ==
    {<<>>, <<Word("boom")>>, <<Word("Bearer")>>, <<Word("Bearer"), Sp>>,
     <<Word("Basic"), Sp, Word("boom")>>, Bearer(Word("boom")),
     <<Word("bearer"), Sp, createJwtToken("alice").token>>,
     <<Word("Bearer"), Sp, Sp, createJwtToken("alice").token>>}
    \cup {Bearer(t) : t \in Tokens}

AuthenticationHeaders == {<<>>, <<Word("Bearer")>>, Bearer(createJwtToken("bob").token)}

CredentialBodies ==
    {NoBody, Malformed, JsonBody(<<>>),
     JsonBody([user |-> JNum("5"), password |-> JStr("pw1")])}
    \cup {JsonBody([user |-> JStr(u), password |-> JStr(p)]) :
            u \in UserNames \cup {""}, p \in Passwords}

FlightInputs ==
    {[name |-> "US229", bookedOn |-> ""], [name |-> "US229", bookedOn |-> "01/01/2000"]}

RECURSIVE SeqsUpTo(_, _)
SeqsUpTo(S, n) ==
    IF n = 0 THEN {<<>>}
    ELSE SeqsUpTo(S, n - 1)
         \cup {Append(q, x) : q \in {t \in SeqsUpTo(S, n - 1) : Len(t) = n - 1}, x \in S}

BookingBodies ==
    {NoBody, Malformed, JsonBody(<<>>), JsonBody([flights |-> JStr("US229")])}
    \cup {JsonBody([flights |-> [t |-> "array", v |-> fs]]) : fs \in SeqsUpTo(FlightInputs, MaxFlights)}

SearchKeys == {<<>>, <<"S", "F", "O">>, <<"k", "s", "f", "o">>, <<"S", "a", "n">>}

Chars(a, b, c, d, e, f, g, h, i, j) == <<a, b, c, d, e, f, g, h, i, j>>

LeaveDates ==
    {<<>>,
     Chars("1", "2", "/", "1", "5", "/", "2", "0", "2", "0"),
     Chars("0", "2", "/", "2", "9", "/", "2", "0", "2", "4"),
     Chars("0", "2", "/", "2", "9", "/", "2", "0", "2", "3"),
     Chars("1", "3", "/", "0", "1", "/", "2", "0", "2", "1"),
     Chars("0", "1", "/", "0", "1", "/", "0", "0", "0", "1"),
     Chars("1", "1", "/", "0", "1", "/", "2", "0", "2", "6"),
     Chars("1", "1", "/", "0", "5", "/", "2", "0", "2", "6"),
     Chars("1", "1", "/", "0", "6", "/", "2", "0", "2", "6"),
     Chars("1", "1", "/", "0", "7", "/", "2", "0", "2", "6"),
     Chars("1", "2", "/", "3", "1", "/", "1", "9", "9", "9"),
     Chars("0", "3", "/", "0", "1", "/", "2", "0", "0", "0"),
     Chars("1", "5", "-", "1", "2", "-", "2", "0", "2", "0"),
     <<"2", "/", "3", "/", "2", "0", "2", "1">>,
     Append(Chars("1", "2", "/", "1", "5", "/", "2", "0", "2", "0"), "x")}

boom == [kind |-> "boom", msg |-> "boom"]

\* what the query service and the search service may answer
QueryAnswers ==
    {[err |-> nil, rows |-> <<>>], [err |-> nil, rows |-> <<"row1", "row2">>],
     [err |-> boom, rows |-> <<>>], [err |-> gocbErrTimeout, rows |-> <<>>]}

NoExt == [err |-> nil, rows |-> <<>>]

Env(fault, ext) == [fault |-> fault, ext |-> ext]
NoEnv == Env(0, NoExt)

\* the header pairs a client may send: every Authorization header alone, and
\* some of them beside an Authentication header
HeaderPairs ==
    {<<a1, <<>>>> : a1 \in AuthorizationHeaders}
    \cup {<<a1, a2>> :
            a1 \in {<<>>, <<Word("boom")>>, <<Word("Bearer")>>, Bearer(Word("boom")),
                    Bearer(createJwtToken("alice").token)},
            a2 \in AuthenticationHeaders}

\* header pairs that authenticate, for the requests that vary the rest
GoodPairs ==
    {<<Bearer(createJwtToken(u).token), <<>>>> : u \in UserNames}
    \cup {<<Bearer(SignedString("HS384", UserClaim("alice"), jwtSecret)), <<>>>>,
          <<<<>>, Bearer(createJwtToken("bob").token)>>}

\* header pairs that do not, for the requests that vary the body
BadPairs ==
    {<<<<>>, <<>>>>, <<Bearer(Word("boom")), <<>>>>, <<<<Word("Bearer")>>, <<>>>>,
     <<Bearer(createJwtToken("").token), <<>>>>,
     <<Bearer(SignedString("HS256", [sub |-> JStr("alice")], jwtSecret)), <<>>>>}

OneFlight == JsonBody([flights |-> [t |-> "array", v |-> <<[name |-> "US229", bookedOn |-> ""]>>]])

\* ------------------------------------------------------------------ the router

\* url.URL.Path holds the decoded path: every "%20" of a segment is a space
PathUnescape(seg) == [i \in 1..Len(seg) |-> IF seg[i] = "%20" THEN " " ELSE seg[i]]

Lit(s) == <<s>>

\* the handlers setupRoutes registers, apart from the file server
Handlers ==
    {"AirportSearch", "FlightSearch", "UserLogin", "UserSignup", "UserFlights",
     "UserBookFlight", "HotelSearch"}

NoVars == [from |-> <<>>, to |-> <<>>, username |-> <<>>, description |-> <<>>, location |-> <<>>]

\* mux.Router.Match over the routes in the order setupRoutes adds them: a
\* Path template matches the whole decoded path, a variable matches one
\* non-empty segment, and a template's trailing slash must be in the path
\* (StrictSlash is off).  What no route takes goes to PathPrefix("/"), the
\* file server.  mux.Vars of a variable the route does not have is "".
Route(method, path) ==
    LET segs == [i \in 1..Len(path.segs) |-> PathUnescape(path.segs[i])]
        n    == Len(segs)
        is(i, s)  == segs[i] = Lit(s)
        var(i)    == segs[i] # <<>>
        to(h, vs) == [handler |-> h, vars |-> vs]
    IN  IF method = "GET" /\ n = 2 /\ ~path.slash /\ is(1, "api") /\ is(2, "airports")
        THEN to("AirportSearch", NoVars)
        ELSE IF method = "GET" /\ n = 4 /\ ~path.slash /\ is(1, "api") /\ is(2, "flightPaths")
                /\ var(3) /\ var(4)
        THEN to("FlightSearch", [NoVars EXCEPT !.from = segs[3], !.to = segs[4]])
        ELSE IF method = "POST" /\ n = 3 /\ ~path.slash /\ is(1, "api") /\ is(2, "user")
                /\ is(3, "login")
        THEN to("UserLogin", NoVars)
        ELSE IF method = "POST" /\ n = 3 /\ ~path.slash /\ is(1, "api") /\ is(2, "user")
                /\ is(3, "signup")
        THEN to("UserSignup", NoVars)
        ELSE IF method = "GET" /\ n = 4 /\ ~path.slash /\ is(1, "api") /\ is(2, "user")
                /\ var(3) /\ is(4, "flights")
        THEN to("UserFlights", [NoVars EXCEPT !.username = segs[3]])
        ELSE IF method = "POST" /\ n = 4 /\ ~path.slash /\ is(1, "api") /\ is(2, "user")
                /\ var(3) /\ is(4, "flights")
        THEN to("UserBookFlight", [NoVars EXCEPT !.username = segs[3]])
        ELSE IF method = "GET" /\ n = 3 /\ path.slash /\ is(1, "api") /\ is(2, "hotel") /\ var(3)
        THEN to("HotelSearch", [NoVars EXCEPT !.description = segs[3]])
        ELSE IF method = "GET" /\ n = 4 /\ path.slash /\ is(1, "api") /\ is(2, "hotel")
                /\ var(3) /\ var(4)
        THEN to("HotelSearch", [NoVars EXCEPT !.description = segs[3], !.location = segs[4]])
        ELSE to("FileServer", NoVars)

\* http.FileServer(http.Dir("./public")): the directory holds the front end
\* and nothing under api/, so such a path is answered 404 in plain text
FileServer(r, st, e) ==
    Out([code |-> 404, body |-> <<[text |-> "404 page not found"]>>, panicked |-> FALSE],
        <<>>, st)

\* the hotel URLs a client may ask for
HotelPaths ==
    {Path(<<Lit("api"), Lit("hotel"), d>> \o l, slash) :
        d \in {<<"Four", "%20", "star">>, Lit("*")},
        l \in {<<>>, <<Lit("London")>>},
        slash \in BOOLEAN}
    \cup {Path(<<Lit("api"), Lit("hotel")>>, TRUE),
          Path(<<Lit("api"), Lit("hotel"), Lit("a"), Lit("b"), Lit("c")>>, TRUE)}

\* ------------------------------------------------------------------ requests side by side

\* net/http runs every request in a goroutine of its own
Procs == {"p1", "p2", "p3"}

emptyBookResp == [data |-> [added |-> <<>>], context |-> <<>>]

\* A request's position and locals.  pc: "idle" before the request, then the
\* data-store operation it is about to do, "done" after it returned.  For a
\* booking: cas and doc are what Get read, ids the IDs made so far (doc.flights
\* ends with them), written the IDs whose flight document was upserted, added
\* is respData.Data.Added.  err and value are what the repository call
\* returned; w is the handler's response.
IdleProc ==
    [pc |-> "idle", op |-> "none", user |-> "", password |-> "", flights |-> <<>>,
     cas |-> 0, doc |-> NoDoc, ids |-> <<>>, written |-> <<>>, added |-> <<>>,
     err |-> nil, value |-> emptyBookResp, w |-> NewRecorder]

\* userCollection.Get(username, nil): the document and its CAS
CollGet(us, cs, key, failed) ==
    LET e == UserRead([users |-> us], key, failed)
    IN  IF e # nil THEN [err |-> e, cas |-> 0, doc |-> NoDoc]
        ELSE [err |-> nil, cas |-> cs[key], doc |-> us[key]]

\* Replace that does not compare the CAS
CollReplace_NoCas(us, cs, key, doc, casOpt, failed) ==
    IF failed THEN [err |-> gocbErrTimeout, users |-> us, cas |-> cs]
    ELSE IF ~us[key].exists THEN [err |-> gocbErrDocumentNotFound, users |-> us, cas |-> cs]
    ELSE [err |-> nil, users |-> [us EXCEPT ![key] = doc], cas |-> [cs EXCEPT ![key] = @ + 1]]

\* Replace that stores the document and then reports the CAS mismatch
CollReplace_MismatchAfterWrite(us, cs, key, doc, casOpt, failed) ==
    IF failed THEN [err |-> gocbErrTimeout, users |-> us, cas |-> cs]
    ELSE IF ~us[key].exists THEN [err |-> gocbErrDocumentNotFound, users |-> us, cas |-> cs]
    ELSE [err |-> IF cs[key] # casOpt THEN gocbErrCasMismatch ELSE nil,
          users |-> [us EXCEPT ![key] = doc], cas |-> [cs EXCEPT ![key] = @ + 1]]

\* userCollection.Replace(username, user, &gocb.ReplaceOptions{Cas: cas}): the
\* store replaces the document only while its CAS is still the one given,
\* and gives the new document a new CAS
CollReplace(us, cs, key, doc, casOpt, failed) ==
    IF failed THEN [err |-> gocbErrTimeout, users |-> us, cas |-> cs]
    ELSE IF ~us[key].exists THEN [err |-> gocbErrDocumentNotFound, users |-> us, cas |-> cs]
    ELSE IF cs[key] # casOpt THEN [err |-> gocbErrCasMismatch, users |-> us, cas |-> cs]
    ELSE [err |-> nil, users |-> [us EXCEPT ![key] = doc], cas |-> [cs EXCEPT ![key] = @ + 1]]

\* an Upsert that never reaches the flights collection
UpsertFlight_Dropped(docs, id, flight) == docs

\* flightCollection.Upsert(flightID.String(), flight, nil)
UpsertFlight(docs, id, flight) ==
    {d \in docs : d.id # id} \cup {[id |-> id, flight |-> flight]}

\* a failing call handing back the response it had filled so far
FailCall_ReturnsPartial(pr, err) ==
    [pr EXCEPT !.pc = "done", !.err = err,
               !.value = [data |-> [added |-> pr.added], context |-> <<>>]]

\* return jsonUserBookFlightResp{}, err
FailCall(pr, err) == [pr EXCEPT !.pc = "done", !.err = err, !.value = emptyBookResp]

\* the IDs the bookings under way will still ask for
Remaining(pr) == IF pr.pc \in {"get", "uuid", "upsert"} THEN Len(pr.flights) - Len(pr.ids) ELSE 0
Pending == Remaining(procs["p1"]) + Remaining(procs["p2"]) + Remaining(procs["p3"])

\* POST /api/user/signup arrives; the handler has decoded its body
SignupStart(p) ==
    /\ procs[p].pc = "idle"
    /\ \E u \in UserNames, pw \in Passwords :
         procs' = [procs EXCEPT ![p] = [IdleProc EXCEPT !.pc = "insert", !.op = "signup",
                                                       !.user = u, !.password = pw]]
    /\ UNCHANGED <<storeVars, reqVars, cas, log>>

\* the rest of UserSignup: CreateUser's Insert, the one operation on the
\* store, and the response
SignupInsert(p) ==
    /\ procs[p].pc = "insert"
    /\ \E fault \in 0..1 :
         LET pr  == procs[p]
             r   == [BaseReq("UserSignup") EXCEPT
                        !.body = JsonBody([user |-> JStr(pr.user), password |-> JStr(pr.password)])]
             out == UserSignup(r, Store(users, flightDocs, nextId), Env(fault, NoExt))
         IN  /\ users' = out.st.users
             /\ cas' = [u \in UserNames |-> IF out.st.users[u] # users[u] THEN cas[u] + 1 ELSE cas[u]]
             /\ procs' = [procs EXCEPT ![p] = [pr EXCEPT !.pc = "done", !.err = out.calls[1].err,
                                                         !.w = out.w]]
    /\ UNCHANGED <<flightDocs, nextId, reqVars, log>>

\* UpdateUserFlights(username, bookedFlights) is called; a booking asks for
\* no more IDs than are left
BookStart(p) ==
    /\ procs[p].pc = "idle"
    /\ \E u \in UserNames, n \in 0..MaxFlights :
         /\ (nextId - 1) + Pending + n <= MaxIds
         /\ procs' = [procs EXCEPT ![p] =
                [IdleProc EXCEPT !.pc = "get", !.op = "book", !.user = u,
                                 !.flights = [i \in 1..n |-> [name |-> "US229", bookedOn |-> ""]]]]
    /\ UNCHANGED <<storeVars, reqVars, cas, log>>

\* res, err := userCollection.Get(username, nil); cas := res.Cas()
BookGet(p) ==
    /\ procs[p].pc = "get"
    /\ \E failed \in BOOLEAN :
         LET pr  == procs[p]
             res == CollGet(users, cas, pr.user, failed)
         IN  procs' = [procs EXCEPT ![p] =
                IF res.err # nil THEN FailCall(pr, res.err)
                ELSE [pr EXCEPT !.cas = res.cas, !.doc = res.doc,
                                !.pc = IF pr.flights = <<>> THEN "replace" ELSE "uuid"]]
    /\ UNCHANGED <<storeVars, reqVars, cas, log>>

\* the loop body up to the ID: flight.BookedOn, respData.Data.Added,
\* uuid.NewRandom, user.Flights
BookNewRandom(p) ==
    /\ procs[p].pc = "uuid"
    /\ \E failed \in BOOLEAN :
         LET pr     == procs[p]
             flight == [pr.flights[Len(pr.ids) + 1] EXCEPT !.bookedOn = Today]
             filled == [pr EXCEPT !.added = Append(@, flight)]
         IN  IF failed
             THEN /\ procs' = [procs EXCEPT ![p] = FailCall(filled, uuidErr)]
                  /\ UNCHANGED nextId
             ELSE /\ procs' = [procs EXCEPT ![p] =
                        [filled EXCEPT !.ids = Append(@, nextId),
                                       !.doc.flights = Append(@, nextId),
                                       !.pc = "upsert"]]
                  /\ nextId' = nextId + 1
    /\ UNCHANGED <<users, flightDocs, reqVars, cas, log>>

\* _, err = flightCollection.Upsert(flightID.String(), flight, nil)
BookUpsert(p) ==
    /\ procs[p].pc = "upsert"
    /\ \E failed \in BOOLEAN :
         LET pr == procs[p]
             k  == Len(pr.ids)
         IN  IF failed
             THEN /\ procs' = [procs EXCEPT ![p] = FailCall(pr, gocbErrTimeout)]
                  /\ UNCHANGED flightDocs
             ELSE /\ flightDocs' = UpsertFlight(flightDocs, pr.ids[k], pr.added[k])
                  /\ procs' = [procs EXCEPT ![p] =
                        [pr EXCEPT !.written = Append(@, pr.ids[k]),
                                   !.pc = IF k < Len(pr.flights) THEN "uuid" ELSE "replace"]]
    /\ UNCHANGED <<users, nextId, reqVars, cas, log>>

\* _, err = userCollection.Replace(username, user, &opts) and the return
BookReplace(p) ==
    /\ procs[p].pc = "replace"
    /\ \E failed \in BOOLEAN :
         LET pr  == procs[p]
             res == CollReplace(users, cas, pr.user, pr.doc, pr.cas, failed)
         IN  /\ users' = res.users
             /\ cas' = res.cas
             /\ IF res.err # nil
                THEN /\ procs' = [procs EXCEPT ![p] = FailCall(pr, res.err)]
                     /\ UNCHANGED log
                ELSE /\ procs' = [procs EXCEPT ![p] =
                           [pr EXCEPT !.pc = "done", !.err = nil,
                                      !.value = [data |-> [added |-> pr.added], context |-> <<>>]]]
                     /\ log' = Append(log, [proc |-> p, user |-> pr.user, ids |-> pr.ids])
    /\ UNCHANGED <<flightDocs, nextId, reqVars>>

\* the accounts that exist when the requests arrive: none, or some signed up
\* earlier
Accounts == {{}, {"alice"}, {"alice", "bob"}}

\* ------------------------------------------------------------------ the state machine

St == Store(users, flightDocs, nextId)

Init ==
    /\ users = [u \in UserNames |-> NoDoc]
    /\ flightDocs = {}
    /\ nextId = 1
    /\ req = BaseReq("none")
    /\ env = NoEnv
    /\ w = NewRecorder
    /\ calls = <<>>
    /\ cas = [u \in UserNames |-> 0]
    /\ procs = [p \in Procs |-> IdleProc]
    /\ log = <<>>

Idle == req.handler = "none"

\* the handler a request is routed to
Handle(r, st, e) ==
    CASE r.handler = "AirportSearch"  -> AirportSearch(r, st, e)
      [] r.handler = "FlightSearch"   -> FlightSearch(r, st, e)
      [] r.handler = "HotelSearch"    -> HotelSearch(r, st, e)
      [] r.handler = "UserLogin"      -> UserLogin(r, st, e)
      [] r.handler = "UserSignup"     -> UserSignup(r, st, e)
      [] r.handler = "UserFlights"    -> UserFlights(r, st, e)
      [] r.handler = "UserBookFlight" -> UserBookFlight(r, st, e)
      [] r.handler = "FileServer"     -> FileServer(r, st, e)

\* the server answers request r while the services behave as e says; a fault
\* is one that an operation of the request runs into, and a booking asks for
\* no more IDs than are left
Serve(r, e) ==
    \E out \in {Handle(r, St, e)} :
        /\ e.fault > 0 => out.calls # <<>> /\ out.calls[1].err # nil
        /\ out.st.nextId <= MaxIds + 1
        /\ req' = r
        /\ env' = e
        /\ w' = out.w
        /\ calls' = out.calls
        /\ users' = out.st.users
        /\ flightDocs' = out.st.flightDocs
        /\ nextId' = out.st.nextId
        /\ UNCHANGED concVars

\* the exchange is over: the server is ready for the next request
Finish ==
    /\ ~Idle
    /\ req' = BaseReq("none")
    /\ env' = NoEnv
    /\ w' = NewRecorder
    /\ calls' = <<>>
    /\ UNCHANGED storeVars
    /\ UNCHANGED concVars

ServeAirportSearch ==
    /\ Idle
    /\ \E k \in SearchKeys, ext \in QueryAnswers :
        LET r == [BaseReq("AirportSearch") EXCEPT !.search = k]
        IN  Serve(r, Env(0, ext))

ServeFlightSearch ==
    /\ Idle
    /\ \E from \in {"airport_a"}, to \in {"airport_a", "airport_b"}, leave \in LeaveDates,
       ext \in QueryAnswers :
        LET r == [BaseReq("FlightSearch") EXCEPT !.from = from, !.to = to, !.leave = leave]
        IN  Serve(r, Env(0, ext))

ServeHotelSearch ==
    /\ Idle
    /\ \E path \in HotelPaths, ext \in QueryAnswers :
        LET route == Route("GET", path)
            r == [BaseReq(route.handler) EXCEPT !.path = path,
                                                !.description = route.vars.description,
                                                !.location = route.vars.location]
        IN  /\ route.handler = "FileServer" => ext = NoExt
            /\ Serve(r, Env(0, ext))

ServeUserLogin ==
    /\ Idle
    /\ \E body \in CredentialBodies, fault \in 0..1 :
        LET r == [BaseReq("UserLogin") EXCEPT !.body = body]
        IN  Serve(r, Env(fault, NoExt))

ServeUserSignup ==
    /\ Idle
    /\ \E body \in CredentialBodies, fault \in 0..1 :
        LET r == [BaseReq("UserSignup") EXCEPT !.body = body]
        IN  Serve(r, Env(fault, NoExt))

UserFlightsRequests ==
    {[BaseReq("UserFlights") EXCEPT !.authorization = h[1], !.authentication = h[2],
                                    !.username = u] :
        h \in HeaderPairs, u \in UserNames}

ServeUserFlights ==
    /\ Idle
    /\ \E r \in UserFlightsRequests, fault \in 0..(MaxIds + 1) :
        Serve(r, Env(fault, NoExt))

UserBookFlightRequests ==
    {[BaseReq("UserBookFlight") EXCEPT !.authorization = h[1], !.authentication = h[2],
                                       !.username = "alice", !.body = OneFlight] :
        h \in HeaderPairs}
    \cup {[BaseReq("UserBookFlight") EXCEPT !.authorization = h[1], !.authentication = h[2],
                                            !.username = u, !.body = body] :
            h \in GoodPairs, u \in UserNames, body \in BookingBodies}
    \cup {[BaseReq("UserBookFlight") EXCEPT !.authorization = h[1], !.authentication = h[2],
                                            !.username = "alice", !.body = body] :
            h \in BadPairs, body \in {NoBody, Malformed, OneFlight}}

\* the operations a booking with this body can run into a fault at
BookingFaults(body) ==
    IF body.syntax = "ok" /\ "flights" \in DOMAIN body.obj /\ body.obj.flights.t = "array"
    THEN 0..(2 * Len(body.obj.flights.v) + 2)
    ELSE 0..2

ServeUserBookFlight ==
    /\ Idle
    /\ \E r \in UserBookFlightRequests :
        \E fault \in BookingFaults(r.body) : Serve(r, Env(fault, NoExt))

Next ==
    \/ ServeAirportSearch
    \/ ServeFlightSearch
    \/ ServeHotelSearch
    \/ ServeUserLogin
    \/ ServeUserSignup
    \/ ServeUserFlights
    \/ ServeUserBookFlight
    \/ Finish

Spec == Init /\ [][Next]_vars

\* signups and bookings running side by side, one data-store operation at a
\* time
ConcInit ==
    /\ \E acc \in Accounts :
         /\ users = [u \in UserNames |->
                        IF u \in acc
                        THEN CreateUser(Store([v \in UserNames |-> NoDoc], {}, 1), u, "pw1", 0).st.users[u]
                        ELSE NoDoc]
         /\ cas = [u \in UserNames |-> IF u \in acc THEN 1 ELSE 0]
    /\ flightDocs = {}
    /\ nextId = 1
    /\ req = BaseReq("none")
    /\ env = NoEnv
    /\ w = NewRecorder
    /\ calls = <<>>
    /\ procs = [p \in Procs |-> IdleProc]
    /\ log = <<>>

ConcNext ==
    \E p \in Procs :
        \/ SignupStart(p)
        \/ SignupInsert(p)
        \/ BookStart(p)
        \/ BookGet(p)
        \/ BookNewRandom(p)
        \/ BookUpsert(p)
        \/ BookReplace(p)

ConcSpec == ConcInit /\ [][ConcNext]_vars

\* ------------------------------------------------------------------ properties

\* what a response is made of
IsFailureDoc(doc) == DOMAIN doc = {"failure"}
IsEnvelope(doc)   == DOMAIN doc = {"data", "context"}
FailureIs(rw, code, msg) == rw.code = code /\ rw.body = <<[failure |-> msg]>>
NoToken(rw) == \A i \in 1..Len(rw.body) : IsFailureDoc(rw.body[i])
TokenIs(rw, user) == rw.code = 200 /\ rw.body = <<TokenResp(createJwtToken(user).token)>>

\* the credentials a login or signup request submits
Submitted(r) == JsonDecode(r.body, jsonUserLoginReq)

\* C1: UserLogin answers 200 with a token only when GetUserPassword succeeded
\* for the submitted user name and the stored password equals the submitted
\* one; the token is the one issued for that name; every other outcome
\* carries no token.
C1_LoginTokenOnlyOnMatch ==
    req.handler = "UserLogin" =>
        LET sub == Submitted(req)
        IN  IF w.code = 200
            THEN /\ sub.err = nil
                 /\ Len(calls) = 1
                 /\ calls[1].method = "GetUserPassword"
                 /\ calls[1].args = <<sub.data.user>>
                 /\ calls[1].err = nil
                 /\ calls[1].value = sub.data.password
                 /\ users[sub.data.user].exists
                 /\ users[sub.data.user].password = sub.data.password
                 /\ TokenIs(w, sub.data.user)
            ELSE NoToken(w)

C1_Witness ==
    /\ req.handler = "UserLogin"
    /\ Submitted(req).err = nil
    /\ TokenIs(w, Submitted(req).data.user)

\* C4: UserLogin answers 401 "user does not exist" when GetUserPassword
\* reports document-not-found and 401 "password does not match" when the
\* stored password differs from the submitted one; an unknown user never
\* gets the password-mismatch message.
C4_LoginCredentialFailures ==
    (req.handler = "UserLogin" /\ calls # <<>>) =>
        LET sub == Submitted(req)
        IN  /\ ErrorsIs(calls[1].err, gocbErrDocumentNotFound)
                => FailureIs(w, 401, "user does not exist")
            /\ (calls[1].err = nil /\ calls[1].value # sub.data.password)
                => FailureIs(w, 401, "password does not match")
            /\ (sub.data.user \notin UserNames \/ ~users[sub.data.user].exists)
                => w.body # <<[failure |-> "password does not match"]>>

C4_Witness ==
    /\ req.handler = "UserLogin"
    /\ Submitted(req).err = nil
    /\ Submitted(req).data.user \in UserNames
    /\ ~users[Submitted(req).data.user].exists
    /\ FailureIs(w, 401, "user does not exist")

\* C5: UserSignup answers 409 "user already exists" exactly when CreateUser
\* reports that the document exists, 500 for any other CreateUser error, and
\* 200 with the token of the submitted user name only when CreateUser
\* succeeded, that is when this request created the user.
C5_SignupOutcomes ==
    [][(req.handler = "none" /\ req'.handler = "UserSignup") =>
        LET sub == Submitted(req')
            called == calls' # <<>>
        IN  /\ w'.code = 409 <=> (called /\ ErrorsIs(calls'[1].err, gocbErrDocumentExists))
            /\ w'.code = 409 => FailureIs(w', 409, "user already exists")
            /\ (called /\ calls'[1].err # nil /\ ~ErrorsIs(calls'[1].err, gocbErrDocumentExists))
                => w'.code = 500
            /\ IF w'.code = 200
               THEN /\ Len(calls') = 1
                    /\ calls'[1].method = "CreateUser"
                    /\ calls'[1].args = <<sub.data.user, sub.data.password>>
                    /\ calls'[1].err = nil
                    /\ TokenIs(w', sub.data.user)
                    /\ ~users[sub.data.user].exists
                    /\ users'[sub.data.user] =
                         [exists |-> TRUE, password |-> sub.data.password, flights |-> <<>>]
               ELSE NoToken(w') /\ users' = users]_vars

C5_Witness ==
    /\ req.handler = "UserSignup"
    /\ FailureIs(w, 409, "user already exists")

\* --- authentication, stated apart from decodeAuthUserOrFail

AuthHandlers == {"UserFlights", "UserBookFlight"}

FirstWordIsBearer(h) == Len(h) >= 1 /\ h[1] = Word("Bearer") /\ (Len(h) = 1 \/ h[2] = Sp)

\* the header the token is taken from
ConsultedHeader(r) ==
    IF FirstWordIsBearer(r.authorization) THEN r.authorization ELSE r.authentication

\* a token signed with the server secret by an HMAC method, not expired,
\* whose user claim is a non-empty string
ValidToken(t) ==
    /\ "segs" \in DOMAIN t
    /\ Len(t.segs) = 3
    /\ t.segs[1].alg \in HMACMethods
    /\ t.segs[3] = Sign(t.segs[1].alg, jwtSecret, t.segs[1], t.segs[2])
    /\ ClaimsValid(t.segs[2])
    /\ "user" \in DOMAIN t.segs[2]
    /\ t.segs[2].user.t = "string"
    /\ t.segs[2].user.v # ""

CarriesValidBearer(r) ==
    LET h == ConsultedHeader(r)
    IN  Len(h) = 3 /\ h[1] = Word("Bearer") /\ h[2] = Sp /\ ValidToken(h[3])

ClaimedUser(r) == IF CarriesValidBearer(r) THEN ConsultedHeader(r)[3].segs[2].user.v ELSE ""

\* C2: a request to GET or POST /api/user/{username}/flights that carries no
\* valid Bearer token for a non-empty user is answered 400 with a failure
\* body; the handler neither crashes nor calls the repository.
C2_BadAuthAnswers400 ==
    (req.handler \in AuthHandlers /\ ~CarriesValidBearer(req)) =>
        /\ ~w.panicked
        /\ w.code = 400
        /\ Len(w.body) = 1
        /\ IsFailureDoc(w.body[1])
        /\ calls = <<>>

\* what remains of C2 where the handler does not panic
C2_Answers400UnlessPanicked ==
    (req.handler \in AuthHandlers /\ ~CarriesValidBearer(req)) =>
        /\ calls = <<>>
        /\ w.panicked => w.code = 0 /\ w.body = <<>>
        /\ ~w.panicked => w.code = 400 /\ Len(w.body) = 1 /\ IsFailureDoc(w.body[1])

\* C3: UserFlights and UserBookFlight pass the token's user claim to the
\* repository whatever {username} in the path is; the same request with
\* another {username} gets the same repository call, response and store; no
\* other user's document changes.
C3_ActsOnTokenUser ==
    [][(req.handler = "none" /\ req'.handler \in AuthHandlers) =>
        /\ calls' # <<>> => calls'[1].args[1] = ClaimedUser(req')
        /\ \A u \in UserNames \cup {"mallory"} :
              Handle([req' EXCEPT !.username = u], St, env')
                = Out(w', calls', Store(users', flightDocs', nextId'))
        /\ \A b \in UserNames : b # ClaimedUser(req') => users'[b] = users[b]]_vars

C3_Witness ==
    /\ req.handler = "UserBookFlight"
    /\ w.code = 200
    /\ calls # <<>>
    /\ calls[1].args[1] = "alice"
    /\ req.username = "bob"
    /\ Len(users["alice"].flights) > 0

\* C6: for a non-empty user name u the token createJwtToken(u) makes, sent
\* as "Bearer <token>", passes decodeAuthUserOrFail and authenticates as u;
\* the token made for the empty name is refused with 400 "invalid auth token".
C6_TokenRoundTrip ==
    req.handler \in AuthHandlers =>
        \A u \in UserNames \cup {""} :
            req.authorization = Bearer(createJwtToken(u).token) =>
                IF u = ""
                THEN FailureIs(w, 400, "invalid auth token") /\ calls = <<>>
                ELSE /\ decodeAuthUserOrFail(NewRecorder, req)
                          = [ok |-> TRUE, w |-> NewRecorder, name |-> u]
                     /\ ~w.panicked
                     /\ w.code # 400
                     /\ req.handler = "UserFlights" => Len(calls) = 1
                     /\ calls # <<>> => calls[1].args[1] = u

C6_Witness ==
    /\ req.handler = "UserFlights"
    /\ req.authorization = Bearer(createJwtToken("alice").token)
    /\ w.code = 200
    /\ calls[1].args = <<"alice">>

\* --- validation

RepositoryMethod(h) ==
    CASE h = "AirportSearch"  -> "GetAirports"
      [] h = "FlightSearch"   -> "GetFlightPaths"
      [] h = "HotelSearch"    -> "GetHotels"
      [] h = "UserLogin"      -> "GetUserPassword"
      [] h = "UserSignup"     -> "CreateUser"
      [] h = "UserFlights"    -> "GetUserFlights"
      [] h = "UserBookFlight" -> "UpdateUserFlights"

FailsValidation(r) ==
    \/ r.handler \in AuthHandlers /\ ~CarriesValidBearer(r)
    \/ r.handler \in {"UserLogin", "UserSignup"} /\ Submitted(r).err # nil
    \/ r.handler = "UserBookFlight" /\ JsonDecode(r.body, jsonUserBookFlightReq).err # nil
    \/ r.handler = "FlightSearch" /\ ParseDate(r.leave).err # nil

\* C7: a handler calls one repository method, at most once per request, and
\* not at all when the request fails validation (authentication, body
\* decoding, leave date): then the failure response is written and the
\* repository is never invoked.
C7_OneCallNoneOnInvalid ==
    req.handler \in Handlers =>
        /\ Len(calls) <= 1
        /\ calls # <<>> => calls[1].method = RepositoryMethod(req.handler)
        /\ FailsValidation(req) =>
              /\ calls = <<>>
              /\ w.code \in {400, 500}
              /\ Len(w.body) = 1
              /\ IsFailureDoc(w.body[1])

\* what remains of C7 where the handler does not panic
C7_HoldsUnlessPanicked ==
    req.handler \in Handlers =>
        /\ Len(calls) <= 1
        /\ calls # <<>> => calls[1].method = RepositoryMethod(req.handler)
        /\ FailsValidation(req) =>
              /\ calls = <<>>
              /\ ~w.panicked =>
                    w.code \in {400, 500} /\ Len(w.body) = 1 /\ IsFailureDoc(w.body[1])

\* C8: every handled request gets exactly one response: 200 with a
\* {data, context} envelope, or 400, 401, 409 or 500 with a {failure} body.
C8_OneWellFormedResponse ==
    req.handler \in Handlers =>
        /\ ~w.panicked
        /\ Len(w.body) = 1
        /\ \/ w.code = 200 /\ IsEnvelope(w.body[1])
           \/ w.code \in {400, 401, 409, 500} /\ IsFailureDoc(w.body[1])

\* what remains of C8 where the handler does not panic
C8_HoldsUnlessPanicked ==
    (req.handler \in Handlers /\ ~w.panicked) =>
        /\ Len(w.body) = 1
        /\ \/ w.code = 200 /\ IsEnvelope(w.body[1])
           \/ w.code \in {400, 401, 409, 500} /\ IsFailureDoc(w.body[1])

\* --- repository outcomes

SpeciallyMapped(h, err) ==
    \/ h = "UserLogin" /\ ErrorsIs(err, gocbErrDocumentNotFound)
    \/ h = "UserSignup" /\ ErrorsIs(err, gocbErrDocumentExists)

\* the response that hands a repository result on unchanged
ResultDoc(call) ==
    IF call.method \in {"GetUserPassword", "CreateUser"}
    THEN [data |-> [result |-> call.value], context |-> <<>>]
    ELSE call.value

\* C9 as stated: for all seven handlers an error that is not specially
\* mapped gives 500 with the error's own message, and a success gives 200
\* with the repository's result unchanged.
C9_AllSevenPassThrough ==
    (req.handler \in Handlers /\ calls # <<>>) =>
        /\ (calls[1].err # nil /\ ~SpeciallyMapped(req.handler, calls[1].err))
              => FailureIs(w, 500, calls[1].err.msg)
        /\ calls[1].err = nil => w.code = 200 /\ w.body = <<ResultDoc(calls[1])>>

\* C9 amended: the success half holds for the five handlers that return
\* data; UserLogin and UserSignup answer a success with a token for the
\* submitted user name, UserLogin only when the passwords match (else 401).
C9_PassThrough ==
    (req.handler \in Handlers /\ calls # <<>>) =>
        /\ (calls[1].err # nil /\ ~SpeciallyMapped(req.handler, calls[1].err))
              => FailureIs(w, 500, calls[1].err.msg)
        /\ (calls[1].err = nil /\ req.handler \notin {"UserLogin", "UserSignup"})
              => w.code = 200 /\ w.body = <<calls[1].value>>
        /\ (calls[1].err = nil /\ req.handler = "UserSignup")
              => TokenIs(w, Submitted(req).data.user)
        /\ (calls[1].err = nil /\ req.handler = "UserLogin")
              => IF calls[1].value = Submitted(req).data.password
                 THEN TokenIs(w, Submitted(req).data.user)
                 ELSE FailureIs(w, 401, "password does not match")

C9_Witness ==
    /\ req.handler = "UserFlights"
    /\ calls # <<>>
    /\ calls[1].err = nil
    /\ Len(calls[1].value.data) > 0
    /\ w.code = 200
    /\ w.body = <<calls[1].value>>

\* C10 as stated: document-not-found is answered 401 or 409 by login, by
\* listing a user's flights and by booking.
C10_NotFoundIs401Or409 ==
    (req.handler \in Handlers /\ calls # <<>> /\ ErrorsIs(calls[1].err, gocbErrDocumentNotFound))
        => w.code \in {401, 409}

\* C10 amended: document-not-found is answered 401 "user does not exist" by
\* login only; listing and booking answer it 500 with the error's message.
C10_NotFoundByOperation ==
    (req.handler \in Handlers /\ calls # <<>> /\ ErrorsIs(calls[1].err, gocbErrDocumentNotFound))
        => /\ req.handler \in {"UserLogin", "UserFlights", "UserBookFlight"}
           /\ req.handler = "UserLogin" => FailureIs(w, 401, "user does not exist")
           /\ req.handler \in AuthHandlers => FailureIs(w, 500, calls[1].err.msg)

C10_Witness ==
    /\ req.handler = "UserBookFlight"
    /\ calls # <<>>
    /\ ErrorsIs(calls[1].err, gocbErrDocumentNotFound)
    /\ FailureIs(w, 500, gocbErrDocumentNotFound.msg)

\* --- the leave date

\* the day of the week by Zeller's congruence, renumbered 0 = Sunday through
\* 6 = Saturday; January and February count as months 13 and 14 of the year
\* before
ZellerSundayZero(month, day, year) ==
    LET m == IF month < 3 THEN month + 12 ELSE month
        y == IF month < 3 THEN year - 1 ELSE year
        K == y % 100
        J == y \div 100
        h == (day + ((13 * (m + 1)) \div 5) + K + (K \div 4) + (J \div 4) + 5 * J) % 7
    IN  (h + 6) % 7

\* C11: FlightSearch calls GetFlightPaths once with the path's {from} and
\* {to} and with the weekday of the leave date (mm/dd/yyyy), 0 = Sunday
\* through 6 = Saturday; a missing or unparseable leave date is answered 500
\* with no repository call.
C11_LeaveDateWeekday ==
    req.handler = "FlightSearch" =>
        LET leaveDate == ParseDate(req.leave)
        IN  IF leaveDate.err = nil
            THEN /\ Len(calls) = 1
                 /\ calls[1].method = "GetFlightPaths"
                 /\ calls[1].args[1] = req.from
                 /\ calls[1].args[2] = req.to
                 /\ calls[1].args[3] \in 0..6
                 /\ calls[1].args[3]
                      = ZellerSundayZero(leaveDate.month, leaveDate.day, leaveDate.year)
                 /\ req.leave = Chars("1", "1", "/", "0", "1", "/", "2", "0", "2", "6")
                      => calls[1].args[3] = 0
                 /\ req.leave = Chars("1", "1", "/", "0", "7", "/", "2", "0", "2", "6")
                      => calls[1].args[3] = 6
            ELSE /\ calls = <<>>
                 /\ FailureIs(w, 500, leaveDate.err.msg)

C11_Witness ==
    /\ req.handler = "FlightSearch"
    /\ req.leave = Chars("1", "2", "/", "1", "5", "/", "2", "0", "2", "0")
    /\ req.to = "airport_b"
    /\ calls # <<>>
    /\ calls[1].args = <<"airport_a", "airport_b", 2>>
    /\ w.code = 200

\* --- the hotel routes

\* a GET for /api/hotel/ followed by a description, or by a description and
\* a location, with or without a slash at the end
IsHotelRequest(r) ==
    /\ r.path # NoPath
    /\ Len(r.path.segs) \in {3, 4}
    /\ r.path.segs[1] = Lit("api")
    /\ r.path.segs[2] = Lit("hotel")

\* what GetHotels is to be called with for such a request
HotelArgs(r) ==
    <<PathUnescape(r.path.segs[3]),
      IF Len(r.path.segs) = 4 THEN PathUnescape(r.path.segs[4]) ELSE <<>>>>

\* C12: every hotel request, the listed /api/hotel/{description}/{location}
\* included, is dispatched to HotelSearch, which calls GetHotels with the
\* decoded description and location (the empty location when only a
\* description is given); none goes to the file server.
C12_HotelRouteAsListed ==
    IsHotelRequest(req) =>
        /\ req.handler = "HotelSearch"
        /\ Len(calls) = 1
        /\ calls[1].method = "GetHotels"
        /\ calls[1].args = HotelArgs(req)

\* what holds of the hotel routes: a hotel request reaches HotelSearch
\* exactly when its path ends in a slash, and is then passed on decoded
C12_RoutedWithTrailingSlash ==
    IsHotelRequest(req) =>
        /\ req.handler = (IF req.path.slash THEN "HotelSearch" ELSE "FileServer")
        /\ req.handler = "HotelSearch" =>
              /\ Len(calls) = 1
              /\ calls[1].method = "GetHotels"
              /\ calls[1].args = HotelArgs(req)
        /\ req.handler = "FileServer" => calls = <<>> /\ w.code = 404

\* --- bookings and signups side by side

Booking(pr)   == pr.op = "book"
Returned(pr)  == pr.pc = "done"
Succeeded(pr) == pr.pc = "done" /\ pr.err = nil
Range(q)      == {q[i] : i \in 1..Len(q)}

\* the IDs of the bookings of user u that went through, in that order
RECURSIVE BookedIds(_, _)
BookedIds(lg, u) ==
    IF lg = <<>> THEN <<>>
    ELSE (IF Head(lg).user = u THEN Head(lg).ids ELSE <<>>) \o BookedIds(Tail(lg), u)

\* C13: a user's flight list is the list it started with (empty) followed
\* by the IDs of exactly the booking calls that returned success, each
\* call's IDs together and in request order; of two bookings that read the
\* same version of the document at most one succeeds and the other, if it
\* got as far as the Replace, returns the CAS mismatch.
C13_NoLostBooking ==
    /\ \A u \in UserNames : users[u].flights = BookedIds(log, u)
    /\ \A p \in Procs :
          (Booking(procs[p]) /\ Succeeded(procs[p])) <=>
              \E i \in 1..Len(log) : log[i].proc = p /\ log[i].user = procs[p].user
                                       /\ log[i].ids = procs[p].ids
    /\ \A p \in Procs :
          (Booking(procs[p]) /\ Succeeded(procs[p])) =>
              /\ Len(procs[p].ids) = Len(procs[p].flights)
              /\ \E k \in 0..Len(users[procs[p].user].flights) :
                    SubSeq(users[procs[p].user].flights, k + 1, k + Len(procs[p].ids))
                        = procs[p].ids
    /\ \A p, q \in Procs :
          (/\ p # q
           /\ Booking(procs[p]) /\ Booking(procs[q])
           /\ procs[p].user = procs[q].user
           /\ procs[p].cas # 0 /\ procs[p].cas = procs[q].cas
           /\ Succeeded(procs[p]) /\ Returned(procs[q]))
          => /\ procs[q].err # nil
             /\ Len(procs[q].written) = Len(procs[q].flights)
                  => procs[q].err \in {gocbErrCasMismatch, gocbErrTimeout}

C13_Witness ==
    \E p, q \in Procs :
        /\ p # q
        /\ Booking(procs[p]) /\ Booking(procs[q])
        /\ procs[p].user = procs[q].user
        /\ procs[p].cas = procs[q].cas
        /\ Succeeded(procs[p])
        /\ Returned(procs[q]) /\ procs[q].err = gocbErrCasMismatch
        /\ Len(procs[p].ids) = 1 /\ Len(procs[q].ids) = 1
        /\ users[procs[p].user].flights = procs[p].ids

\* C14: a booking call that returns an error returns the empty response,
\* and the flight documents it had upserted are still stored and are in no
\* user's list; a call that succeeds had upserted every flight document
\* before its Replace.
C14_WrittenFlightsStay ==
    \A p \in Procs :
        /\ (Booking(procs[p]) /\ Returned(procs[p]) /\ procs[p].err # nil) =>
              /\ procs[p].value = emptyBookResp
              /\ \A id \in Range(procs[p].written) :
                    /\ \E d \in flightDocs : d.id = id
                    /\ \A u \in UserNames : id \notin Range(users[u].flights)
        /\ (Booking(procs[p]) /\ procs[p].pc = "replace") =>
              procs[p].written = procs[p].ids /\ Len(procs[p].ids) = Len(procs[p].flights)
        /\ (Booking(procs[p]) /\ Succeeded(procs[p])) =>
              /\ procs[p].written = procs[p].ids
              /\ procs[p].value.data.added = procs[p].added

C14_Witness ==
    \E p \in Procs :
        /\ Booking(procs[p]) /\ Returned(procs[p])
        /\ procs[p].err = gocbErrCasMismatch
        /\ Len(procs[p].written) = 2
        /\ \A id \in Range(procs[p].written) : \E d \in flightDocs : d.id = id
        /\ users[procs[p].user].exists
        /\ users[procs[p].user].flights = <<>>

\* C15: a step of a booking call changes the user's document only when it
\* is the Replace that makes the call succeed, and then it adds all the
\* call's IDs to the list and changes nothing else; a call that returns an
\* error has written nothing to any user document.
C15_ErrorLeavesUserDocument ==
    [][\A p \in Procs :
          (Booking(procs'[p]) /\ procs'[p] # procs[p]) =>
              IF Succeeded(procs'[p])
              THEN /\ Len(procs'[p].ids) = Len(procs'[p].flights)
                   /\ users' = [users EXCEPT ![procs'[p].user].flights = @ \o procs'[p].ids]
              ELSE users' = users /\ cas' = cas]_vars

C15_Witness ==
    \E p, q \in Procs :
        /\ p # q
        /\ Booking(procs[p]) /\ Returned(procs[p])
        /\ procs[p].err = gocbErrTimeout
        /\ Len(procs[p].written) = 1 /\ Len(procs[p].flights) = 1
        /\ Booking(procs[q]) /\ Succeeded(procs[q])
        /\ procs[q].user = procs[p].user
        /\ users[procs[p].user].flights = procs[q].ids
        /\ Len(procs[q].ids) = 1

\* C16: every ID in a user's flight list names a stored flight document, no
\* ID is in two lists or twice in one, and GetUserFlights for an existing
\* user succeeds when the data store does not fail.
C16_ReferentialIntegrity ==
    /\ \A u \in UserNames :
          /\ \A i \in 1..Len(users[u].flights) :
                /\ \E d \in flightDocs : d.id = users[u].flights[i]
                /\ \A j \in 1..Len(users[u].flights) :
                      users[u].flights[i] = users[u].flights[j] => i = j
          /\ \A v \in UserNames \ {u} :
                Range(users[u].flights) \cap Range(users[v].flights) = {}
          /\ users[u].exists =>
                LET ret == GetUserFlights(Store(users, flightDocs, nextId), u, 0)
                IN  ret.err = nil /\ Len(ret.value.data) = Len(users[u].flights)
          /\ ~users[u].exists => users[u].flights = <<>>

C16_Witness ==
    /\ Len(users["alice"].flights) = 1
    /\ Len(users["bob"].flights) = 1
    /\ Len(GetUserFlights(Store(users, flightDocs, nextId), "bob", 0).value.data) = 1

\* the signup requests for user name u that were answered with this status
SignupsAnswered(u, code) ==
    {p \in Procs : procs[p].op = "signup" /\ Returned(procs[p]) /\ procs[p].user = u
                    /\ procs[p].w.code = code}

\* C17: a signup answers 409 and changes nothing when a document exists
\* under the user name, and answers 200 and stores its own password when
\* none does (500, and no change, when the data store fails); so of the
\* signups for one user name at most one is answered 200, the stored password
\* is that request's, and 409 is answered only for an existing user.
C17_SignupNeverOverwrites ==
    /\ [](\A u \in UserNames :
            /\ Cardinality(SignupsAnswered(u, 200)) <= 1
            /\ \A p \in SignupsAnswered(u, 200) :
                  users[u].exists /\ users[u].password = procs[p].password
            /\ SignupsAnswered(u, 409) # {} => users[u].exists
            /\ \A p \in Procs :
                  (procs[p].op = "signup" /\ Returned(procs[p])) => procs[p].w.code \in {200, 409, 500})
    /\ [][\A p \in Procs :
            (procs[p].pc = "insert" /\ procs'[p].pc = "done") =>
                LET u == procs[p].user
                IN  IF procs'[p].w.code = 500
                    THEN procs'[p].err \notin {nil, gocbErrDocumentExists} /\ users' = users
                    ELSE IF users[u].exists
                    THEN /\ FailureIs(procs'[p].w, 409, "user already exists")
                         /\ users' = users
                         /\ cas' = cas
                    ELSE /\ TokenIs(procs'[p].w, u)
                         /\ users' = [users EXCEPT ![u] =
                                [exists |-> TRUE, password |-> procs[p].password,
                                 flights |-> <<>>]]]_vars

C17_Witness ==
    /\ Cardinality(SignupsAnswered("bob", 200)) = 1
    /\ Cardinality(SignupsAnswered("bob", 409)) = 2
    /\ \E p \in SignupsAnswered("bob", 200), q \in SignupsAnswered("bob", 409) :
          procs[p].password # procs[q].password

\* --- the order of authentication and decoding

\* C18: UserBookFlight answers a request that fails authentication 400
\* whatever its body is, and answers 500 for an undecodable body only when
\* the request passed authentication.
C18_AuthBeforeBody ==
    req.handler = "UserBookFlight" =>
        /\ ~CarriesValidBearer(req) => w.code = 400 /\ calls = <<>>
        /\ (w.code = 500 /\ calls = <<>>) =>
              /\ CarriesValidBearer(req)
              /\ JsonDecode(req.body, jsonUserBookFlightReq).err # nil

\* what remains of C18 where the handler does not panic: the body plays no
\* part in the answer to a request that fails authentication
C18_HoldsUnlessPanicked ==
    req.handler = "UserBookFlight" =>
        /\ ~CarriesValidBearer(req) =>
              /\ calls = <<>>
              /\ IF w.panicked THEN w.code = 0 ELSE w.code = 400
              /\ \A body \in BookingBodies :
                    UserBookFlight([req EXCEPT !.body = body], St, env).w = w
        /\ (w.code = 500 /\ calls = <<>>) =>
              /\ CarriesValidBearer(req)
              /\ JsonDecode(req.body, jsonUserBookFlightReq).err # nil

\* --- signup, then login

LoginReq(u, pw) ==
    [BaseReq("UserLogin") EXCEPT !.body = JsonBody([user |-> JStr(u), password |-> JStr(pw)])]

\* C19: once a signup with (u, p) is answered 200, a login with (u, p) is
\* answered 200 with the token string the signup returned and a login with
\* another password 401; no request changes the password of a user document
\* or removes the document; and every login of an existing user with the
\* stored password gets the one token of that user name.
C19_SignupLoginRoundTrip ==
    [][/\ (Idle /\ req'.handler = "UserSignup" /\ w'.code = 200) =>
             LET sub   == Submitted(req').data
                 after == Store(users', flightDocs', nextId')
             IN  /\ UserLogin(LoginReq(sub.user, sub.password), after, NoEnv).w = w'
                 /\ \A pw \in (Passwords \cup {""}) \ {sub.password} :
                       FailureIs(UserLogin(LoginReq(sub.user, pw), after, NoEnv).w,
                                 401, "password does not match")
       /\ \A u \in UserNames :
             users[u].exists => users'[u].exists /\ users'[u].password = users[u].password
       /\ (Idle /\ req'.handler = "UserLogin" /\ env'.fault = 0 /\ Submitted(req').err = nil
              /\ Submitted(req').data.user \in UserNames
              /\ users[Submitted(req').data.user].exists) =>
             LET sub == Submitted(req').data
             IN  IF sub.password = users[sub.user].password
                 THEN w'.code = 200
                      /\ w'.body = <<TokenResp(SignedString("HS256", UserClaim(sub.user), jwtSecret))>>
                 ELSE FailureIs(w', 401, "password does not match")]_vars

C19_Witness ==
    /\ req.handler = "UserLogin"
    /\ Submitted(req).err = nil
    /\ Submitted(req).data = [user |-> "alice", password |-> "pw2"]
    /\ users["alice"].password = "pw2"
    /\ Len(users["alice"].flights) > 0
    /\ w.code = 200
    /\ w.body = <<TokenResp(createJwtToken("alice").token)>>

\* --- the two headers

\* C20: the token is taken from the Authorization header when that header's
\* first word is Bearer and from the Authentication header otherwise; when
\* neither starts with Bearer the answer is 400 "bad authentication header
\* format"; an Authorization header that starts with Bearer decides alone,
\* so an invalid token there is refused whatever the Authentication header
\* carries.
C20_HeaderPrecedence ==
    req.handler \in AuthHandlers =>
        /\ (~FirstWordIsBearer(req.authorization) /\ ~FirstWordIsBearer(req.authentication))
              => FailureIs(w, 400, "bad authentication header format") /\ calls = <<>>
        /\ FirstWordIsBearer(req.authorization) =>
              /\ \A a2 \in AuthenticationHeaders :
                    decodeAuthUserOrFail(NewRecorder, [req EXCEPT !.authentication = a2])
                      = decodeAuthUserOrFail(NewRecorder, [req EXCEPT !.authentication = <<>>])
              /\ ~CarriesValidBearer([req EXCEPT !.authentication = <<>>]) =>
                    calls = <<>> /\ w.code \in {0, 400}
              /\ calls # <<>> => calls[1].args[1] = req.authorization[3].segs[2].user.v
        /\ (~FirstWordIsBearer(req.authorization) /\ FirstWordIsBearer(req.authentication)
              /\ calls # <<>>) =>
              calls[1].args[1] = req.authentication[3].segs[2].user.v

C20_Witness ==
    /\ req.handler = "UserFlights"
    /\ req.authorization = Bearer(Word("boom"))
    /\ req.authentication = Bearer(createJwtToken("bob").token)
    /\ FailureIs(w, 400, "bad authentication header format")
    /\ calls = <<>>

====
